---------------------------- MODULE Spec2Model ----------------------------
(***************************************************************************)
(* Generation and grading pipeline of aksara-server.                       *)
(*                                                                         *)
(*   SpecLLM    aiService.generateLLM: the retry loop around processLLM,   *)
(*              cleanLLMOutput and tryParseJSON.                           *)
(*   SpecGen    exerciseController.generate: the filter, the path rewrite  *)
(*              and the final slice applied to the model's output.         *)
(*   SpecBank   storeExerciseQuiz / updateExerciseQuiz: the per-item       *)
(*              question-bank check run under Promise.all, and             *)
(*              questionBankController.index reading the bank.             *)
(*   SpecGrade  exerciseController.answer: transcription, per-answer       *)
(*              score and the quiz aggregate.                              *)
(*   SpecQuiz   storeExerciseQuiz, updateExerciseQuiz and answer on one    *)
(*              exercise, one request after the other.                     *)
(*   SpecScore  similarity.calculateCharacterMatchScore.                   *)
(*   SpecClean  promptHelpers.cleanLLMOutput on arbitrary text.            *)
(*   SpecHash   the content hash of two text items.                        *)
(*                                                                         *)
(* Texts are sequences of tokens; a token stands for the run of characters *)
(* named in its comment, so that trim, replace, split and endsWith are     *)
(* computed on the sequence the way the JavaScript computes them on the    *)
(* characters.                                                             *)
(***************************************************************************)
EXTENDS Integers, Sequences, FiniteSets, TLC

VARIABLES
    llmPc,        \* generateLLM: "idle" | "loop" | "calling" | "returned" | "thrown"
    llmRetries,   \* generateLLM: the retries argument
    llmI,         \* generateLLM: the loop counter i
    llmCalls,     \* generateLLM: calls made to the model endpoint by this invocation
    llmRaw,       \* generateLLM: what the last processLLM call produced
    llmResult,    \* generateLLM: the value returned to the caller
    genPc,        \* generate: "idle" | "responded"
    genReq,       \* generate: req.body (quantity, method)
    genOut,       \* generate: what generateLLM gave the handler
    genResp,      \* generate: the response sent (status, questions)
    bank,         \* the QuestionBank collection, in insertion order
    quizzes,      \* exercise.quiz of the stored exercise document
    nextId,       \* the next _id given to a question subdocument
    req,          \* storeExerciseQuiz / updateExerciseQuiz requests in flight
    ans,          \* the answer request in flight: its in-memory quiz and locals
    scoreCall,    \* calculateCharacterMatchScore: the call and what it returned
    hashCall,     \* the content hash: two items and the codes computed for them
    cleanCall,    \* cleanLLMOutput: the text, its result and the result cleaned again
    indexCall     \* questionBankController.index: the last response sent

llmVars == <<llmPc, llmRetries, llmI, llmCalls, llmRaw, llmResult>>
genVars == <<genPc, genReq, genOut, genResp>>

dbVars  == <<bank, quizzes, nextId>>

helperVars == <<scoreCall, cleanCall, hashCall, indexCall>>

vars == <<llmVars, genVars, dbVars, req, ans, helperVars>>

\* What each part of the program leaves alone.
nonLlmVars == <<genVars, dbVars, req, ans, helperVars>>
nonGenVars == <<llmVars, dbVars, req, ans, helperVars>>
nonQuizVars == <<llmVars, genVars, ans, helperVars>>
nonAnswerVars == <<llmVars, genVars, bank, nextId, req, helperVars>>
nonHelperVars == <<llmVars, genVars, dbVars, req, ans>>

-----------------------------------------------------------------------------
(* Bounds *)

MaxRetries == 3
MaxOutLen == 2      \* items in one model output
MaxQuantity == 2    \* the largest quantity a request asks for
MaxInFlight == 2    \* question items being processed at once, over all requests
MaxQuiz == 1        \* quizzes of the exercise
MaxId == 2          \* question subdocument ids handed out
MaxQuestions == 4   \* questions of the quiz that is graded
MaxAnswers == 2     \* answers in one submission
MaxStrLen == 3      \* characters of a string given to calculateCharacterMatchScore
MaxTextLen == 4     \* tokens of a text given to cleanLLMOutput

-----------------------------------------------------------------------------
(* Texts *)

BT    == "FENCE"             \* three backticks
JSONW == "json"
NL    == "NL"
SP    == " "
HERE  == "Here is"
COLON == ":"
OB    == "[{method"        \* a JSON document is OB COLON CB
CB    == "1}]"
NULLW == "null"
TXT   == "abc"

Undefined == "undefined"
Null      == "null value"

IsWS(c) == c \in {NL, SP}

RECURSIVE TrimStart(_)
TrimStart(s) ==
    IF s # <<>> /\ IsWS(Head(s)) THEN TrimStart(Tail(s)) ELSE s

RECURSIVE TrimEnd(_)
TrimEnd(s) ==
    IF s # <<>> /\ IsWS(s[Len(s)]) THEN TrimEnd(SubSeq(s, 1, Len(s) - 1)) ELSE s

\* String.prototype.trim
Trim(s) == TrimEnd(TrimStart(s))

\* s.replace(/^FENCEjson/g, "")
StripFenceJson(s) ==
    IF Len(s) >= 2 /\ s[1] = BT /\ s[2] = JSONW THEN SubSeq(s, 3, Len(s)) ELSE s

\* s.replace(/^FENCE/g, "")
StripFenceStart(s) ==
    IF Len(s) >= 1 /\ s[1] = BT THEN Tail(s) ELSE s

\* s.replace(/FENCE$/g, "")
StripFenceEnd(s) ==
    IF Len(s) >= 1 /\ s[Len(s)] = BT THEN SubSeq(s, 1, Len(s) - 1) ELSE s

\* The index of the first colon that /^Here is.*?:/i reaches: "." stops at a
\* line break.  0 when the pattern does not match.
FirstColon(s) ==
    LET cand == { p \in 2..Len(s) :
                    /\ s[p] = COLON
                    /\ \A q \in 2..(p - 1) : s[q] # NL /\ s[q] # COLON }
    IN IF Len(s) >= 1 /\ s[1] = HERE /\ cand # {}
          THEN CHOOSE p \in cand : TRUE
          ELSE 0

\* s.replace(/^Here is.*?:/i, "")
StripPreamble(s) ==
    IF FirstColon(s) = 0 THEN s ELSE SubSeq(s, FirstColon(s) + 1, Len(s))

cleanLLMOutput(text) ==
    Trim(StripPreamble(StripFenceEnd(StripFenceStart(StripFenceJson(Trim(text))))))

\* JSON.parse accepts the text: the document, or the literal null.
JSONParses(s) == s \in { <<OB, COLON, CB>>, <<NULLW>> }

JSONValue(s) == IF s = <<NULLW>> THEN Null ELSE "document"

\* A parser that gives null for every text.
tryParseJSONNull(text) == Null

tryParseJSON(text) == IF JSONParses(text) THEN JSONValue(text) ELSE Null


-----------------------------------------------------------------------------
(* aiService.generateLLM *)

\* What one processLLM call can produce: axios throws ("error"), the reply has
\* no response field (Undefined), or the reply's text.
LLMRaws ==
    { <<OB, COLON, CB>>,
      <<BT, JSONW, NL, OB, COLON, CB, NL, BT>>,
      <<HERE, SP, TXT, COLON, NL, OB, COLON, CB>>,
      <<HERE, SP, OB, COLON, CB>>,
      <<NULLW>>,
      <<TXT>>,
      <<BT, NL, TXT, NL, BT>>,
      <<>> }

LLMOutcomes ==
    { [kind |-> "error", text |-> <<>>], [kind |-> Undefined, text |-> <<>>] }
    \cup { [kind |-> "text", text |-> t] : t \in LLMRaws }

NoRaw == [kind |-> "none", text |-> <<>>]

\* An attempt in which only the missing text throws.
AttemptThrowsOnMissingText(out) == out.kind = Undefined

\* processLLM rethrows a transport error; cleanLLMOutput(undefined) throws a
\* TypeError at text.trim().  Both land in generateLLM's catch.
AttemptThrows(out) == out.kind \in {"error", Undefined}

\* A loop that runs once more than retries.
LoopContinuesOffByOne(i, retries) == i <= retries

\* for (let i = 0; i < retries; i++)
LoopContinues(i, retries) == i < retries

GenerateLLMStart ==
    /\ llmPc = "idle"
    /\ \E r \in 0..MaxRetries : llmRetries' = r
    /\ llmI' = 0
    /\ llmCalls' = 0
    /\ llmRaw' = NoRaw
    /\ llmResult' = "none"
    /\ llmPc' = "loop"
    /\ UNCHANGED nonLlmVars

\* await processLLM(model, prompt): the request goes out.
LLMCall ==
    /\ llmPc = "loop"
    /\ LoopContinues(llmI, llmRetries)
    /\ llmCalls' = llmCalls + 1
    /\ llmPc' = "calling"
    /\ UNCHANGED <<llmRetries, llmI, llmRaw, llmResult>>
    /\ UNCHANGED nonLlmVars

\* The call settles: the catch block falls through to i++, anything else
\* reaches "return parsed".
LLMRespond ==
    /\ llmPc = "calling"
    /\ \E out \in LLMOutcomes :
         /\ llmRaw' = out
         /\ IF AttemptThrows(out)
               THEN /\ llmI' = llmI + 1
                    /\ llmPc' = "loop"
                    /\ llmResult' = llmResult
               ELSE /\ llmResult' = tryParseJSON(cleanLLMOutput(out.text))
                    /\ llmPc' = "returned"
                    /\ llmI' = llmI
    /\ UNCHANGED <<llmRetries, llmCalls>>
    /\ UNCHANGED nonLlmVars

\* throw new Error("Model failed to produce valid JSON after ... retries")
LLMExhausted ==
    /\ llmPc = "loop"
    /\ ~LoopContinues(llmI, llmRetries)
    /\ llmPc' = "thrown"
    /\ UNCHANGED <<llmRetries, llmI, llmCalls, llmRaw, llmResult>>
    /\ UNCHANGED nonLlmVars

\* The caller has the outcome; the next invocation may start.
LLMDone ==
    /\ llmPc \in {"returned", "thrown"}
    /\ llmPc' = "idle"
    /\ UNCHANGED <<llmRetries, llmI, llmCalls, llmRaw, llmResult>>
    /\ UNCHANGED nonLlmVars

InitLLM ==
    /\ llmPc = "idle"
    /\ llmRetries = 0
    /\ llmI = 0
    /\ llmCalls = 0
    /\ llmRaw = NoRaw
    /\ llmResult = "none"

NextLLM ==
    \/ GenerateLLMStart
    \/ LLMCall
    \/ LLMRespond
    \/ LLMExhausted
    \/ LLMDone


-----------------------------------------------------------------------------
(* JavaScript values and string operations used by the controllers *)

SLASH == "/"
PNG   == ".png"

\* A number n is held as twice its value, so that 2.5 is representable; nan
\* marks a value whose ToNumber is NaN.
Num(n)     == [t |-> "number", nan |-> FALSE, twice |-> 2 * n]
Half(n2)   == [t |-> "number", nan |-> FALSE, twice |-> n2]
NumStr(n)  == [t |-> "string", nan |-> FALSE, twice |-> 2 * n]   \* the string "6"
WordStr    == [t |-> "string", nan |-> TRUE, twice |-> 0]        \* the string "abc"
UndefVal   == [t |-> "undefined", nan |-> TRUE, twice |-> 0]

\* a >= n and a <= n for a JavaScript value a and an integer n
JsGe(v, n) == ~v.nan /\ v.twice >= 2 * n
JsLe(v, n) == ~v.nan /\ v.twice <= 2 * n

\* a == b (loose) between values of the kinds above
JsLooseEq(a, b) ==
    IF a.t = "undefined" \/ b.t = "undefined"
       THEN a.t = b.t
       ELSE IF a.t = "string" /\ b.t = "string"
               THEN a = b
               ELSE ~a.nan /\ ~b.nan /\ a.twice = b.twice

\* a === n for an integer n
JsStrictEqNum(v, n) == v.t = "number" /\ v.twice = 2 * n

\* Whether pat occurs in s at position p
OccursAt(s, pat, p) ==
    /\ p + Len(pat) - 1 <= Len(s)
    /\ \A k \in 1..Len(pat) : s[p + k - 1] = pat[k]

\* s.replace(pat, rep) with a string pattern: the first occurrence only
ReplaceFirst(s, pat, rep) ==
    LET at == { p \in 1..Len(s) : OccursAt(s, pat, p) }
    IN IF at = {} THEN s
       ELSE LET p == CHOOSE q \in at : \A q2 \in at : q <= q2
            IN SubSeq(s, 1, p - 1) \o rep \o SubSeq(s, p + Len(pat), Len(s))

\* The value taken whole as the file name.
WholeValue(s) == s

\* s.split('/').pop(): what follows the last slash
LastSegment(s) ==
    LET at == { p \in 1..Len(s) : s[p] = SLASH }
    IN IF at = {} THEN s
       ELSE SubSeq(s, (CHOOSE q \in at : \A q2 \in at : q >= q2) + 1, Len(s))

\* s.endsWith('.png')
EndsWithPng(s) == Len(s) >= 1 /\ s[Len(s)] = PNG

StoragePrefix == <<"storage", SLASH, "exercise", SLASH>>
ImagePrefix   == <<"image", SLASH, "exercise", SLASH>>

-----------------------------------------------------------------------------
(* exerciseController.generate *)

listImages ==
    { <<"anjing">>, <<"buku">>, <<"gunting">>, <<"kucing">>, <<"kursi">>,
      <<"meja">>, <<"mobil">>, <<"motor">>, <<"pensil">>, <<"pesawat">>,
      <<"singa">>, <<"ular">> }

\* An item of the model's output; present is FALSE when it has no question.
GenItem(m, ty, v) ==
    [method |-> m, question |-> [present |-> TRUE, type |-> ty, value |-> v]]

\* Items the model may put in its output.
GenItems ==
    { GenItem(Num(1), "text", <<TXT>>),
      GenItem(Num(6), "text", <<"5 + 5">>),
      GenItem(Num(5), "path", <<"kucing">>),
      GenItem(Num(5), "path", <<"dog">>),
      GenItem(Num(5), "path", <<"kucing", PNG>>),
      GenItem(Num(5), "path", StoragePrefix \o <<"kucing">>),
      GenItem(Num(5), "path", <<"kucing">> \o StoragePrefix),
      GenItem(Num(5), "hex", <<"#ff0000">>),
      GenItem(Num(6), "path", <<"kucing">>),
      GenItem(Num(6), "hex", <<"#ff0000">>),
      GenItem(Num(6), "path", <<"dog">>),
      GenItem(NumStr(6), "path", <<"kucing">>),
      GenItem(NumStr(1), "text", <<TXT>>),
      GenItem(Half(5), "text", <<TXT>>),
      GenItem(Num(0), "text", <<TXT>>),
      GenItem(Num(7), "text", <<TXT>>),
      GenItem(Num(-1), "text", <<TXT>>),
      GenItem(WordStr, "text", <<TXT>>),
      GenItem(UndefVal, "text", <<TXT>>),
      [method |-> Num(1),
       question |-> [present |-> FALSE, type |-> "text", value |-> <<>>]] }


SeqsUpTo(S, n) == UNION { [1..k -> S] : k \in 0..n }

\* filter callback, A: item.method >= 1 && item.method <= 6
isValidMethod(item) == JsGe(item.method, 1) /\ JsLe(item.method, 6)

\* A filter that lets every method through, whatever the request names.
matchesAnyMethod(item, method) == TRUE

\* filter callback, B: method == 0 ? true : item.method == method
matchesRequestedMethod(item, method) ==
    IF JsLooseEq(method, Num(0)) THEN TRUE ELSE JsLooseEq(item.method, method)

\* filter callback, C: item.method === 6 && item.question.type === 'path'
isArithmeticPath(item) ==
    JsStrictEqNum(item.method, 6) /\ item.question.type = "path"

\* filter callback, D: the value without 'storage/exercise/' is in listImages
inListImages(item) ==
    ReplaceFirst(item.question.value, StoragePrefix, <<>>) \in listImages

\* The filter callback's verdict on one item.
KeepItem(item, method) ==
    IF isArithmeticPath(item) THEN FALSE
    ELSE IF item.question.type = "path" /\ ~inListImages(item) THEN FALSE
    ELSE isValidMethod(item) /\ matchesRequestedMethod(item, method)

RECURSIVE FilterItems(_, _)
FilterItems(items, method) ==
    IF items = <<>> THEN <<>>
    ELSE IF KeepItem(Head(items), method)
            THEN <<Head(items)>> \o FilterItems(Tail(items), method)
            ELSE FilterItems(Tail(items), method)

\* map callback: a path item gets image/exercise/<file>.png
FormatItem(item) ==
    IF item.question.type = "path"
       THEN LET fileName == LastSegment(item.question.value)
                formatted == IF EndsWithPng(fileName) THEN fileName
                             ELSE fileName \o <<PNG>>
            IN [item EXCEPT !.question.value = ImagePrefix \o formatted]
       ELSE item

MapFormat(items) == [k \in 1..Len(items) |-> FormatItem(items[k])]

\* The list without the cut to quantity.
SliceAll(items, quantity) == items

\* .slice(0, quantity) for an integer quantity >= 0
Slice(items, quantity) ==
    SubSeq(items, 1, IF quantity < Len(items) THEN quantity ELSE Len(items))

\* item.question.type on an item without a question is a TypeError
FilterThrows(items) == \E k \in 1..Len(items) : ~items[k].question.present

finalQuestions(items, quantity, method) ==
    Slice(MapFormat(FilterItems(items, method)), quantity)

\* What generateLLM hands back: it threw, it returned null, or it returned
\* the parsed array.
GenLLMResults ==
    { [kind |-> "thrown", items |-> <<>>], [kind |-> "null", items |-> <<>>] }
    \cup { [kind |-> "array", items |-> a] : a \in SeqsUpTo(GenItems, MaxOutLen) }

GenMethods == { Num(0), Num(1), Num(5), Num(6) }

NoResp == [status |-> 0, questions |-> <<>>]
NoReq  == [quantity |-> 0, method |-> Num(0)]
NoOut  == [kind |-> "none", items |-> <<>>]

\* exports.generate, one request from req.body to the response
Generate ==
    /\ genPc = "idle"
    /\ \E quantity \in 1..MaxQuantity, method \in GenMethods, result \in GenLLMResults :
         /\ genReq' = [quantity |-> quantity, method |-> method]
         /\ genOut' = result
         /\ genResp' =
              IF result.kind # "array" \/ FilterThrows(result.items)
                 THEN [status |-> 500, questions |-> <<>>]
                 ELSE [status |-> 200,
                       questions |-> finalQuestions(result.items, quantity, method)]
    /\ genPc' = "responded"
    /\ UNCHANGED nonGenVars

GenerateDone ==
    /\ genPc = "responded"
    /\ genPc' = "idle"
    /\ genReq' = NoReq
    /\ genOut' = NoOut
    /\ genResp' = NoResp
    /\ UNCHANGED nonGenVars

InitGen ==
    /\ genPc = "idle"
    /\ genReq = NoReq
    /\ genOut = NoOut
    /\ genResp = NoResp

NextGen ==
    \/ Generate
    \/ GenerateDone

-----------------------------------------------------------------------------
(* storeExerciseQuiz and updateExerciseQuiz *)

HEXRED  == "#ff0000"
DATAURL == "data:image/png;base64,"

\* String.prototype.toLowerCase on one token
LowerToken(c) == CASE c = "A" -> "a" [] c = "B" -> "b" [] OTHER -> c

ToLowerCase(s) == [k \in 1..Len(s) |-> LowerToken(s[k])]

\* s.split('/'): the runs between slashes
RECURSIVE Split(_)
Split(s) ==
    LET at == { p \in 1..Len(s) : s[p] = SLASH }
    IN IF at = {} THEN <<s>>
       ELSE LET p == CHOOSE q \in at : \A q2 \in at : q <= q2
            IN <<SubSeq(s, 1, p - 1)>> \o Split(SubSeq(s, p + 1, Len(s)))

\* 'storage/exercise/' + s.split('/')[2]
ReusePath(s) ==
    StoragePrefix \o (IF Len(Split(s)) >= 3 THEN Split(s)[3] ELSE <<Undefined>>)

isHexColor(s) == Len(s) = 1 /\ s[1] = HEXRED

isBase64DataURL(s) == Len(s) >= 1 /\ s[1] = DATAURL

\* saveBase64Image writes the file and answers with its path under a name
\* made of the clock and a random number.
SavedPath(file) == StoragePrefix \o <<file>>

\* method == 5 ? (isHexColor(question) ? 'hex' : 'path') : 'text'
questionType(method, question) ==
    IF method = 5 THEN (IF isHexColor(question) THEN "hex" ELSE "path") ELSE "text"

\* s.replace(' ', '').toLowerCase(): the first space goes, then lower case
Normalize(s) == ToLowerCase(ReplaceFirst(s, <<SP>>, <<>>))

\* qVal
QVal(item, file) ==
    IF questionType(item.method, item.question) = "path"
       THEN IF isBase64DataURL(item.question) THEN SavedPath(file)
            ELSE ReusePath(item.question)
       ELSE Normalize(item.question)

\* qSave
QSave(item, file) ==
    IF questionType(item.method, item.question) = "path"
       THEN QVal(item, file)
       ELSE item.question

\* A digest over the key as submitted.
ContentCodeRawKey(qVal, key) == [question |-> qVal, key |-> key]

\* md5(JSON.stringify({ question: qVal, key: k })): the digest is held as the
\* pair it is computed from, two pairs having one digest only when equal.
ContentCode(qVal, key) == [question |-> qVal, key |-> Normalize(key)]

\* One element of questions.map(async (item) => ...), up to its first await.
NewTask(item, file) ==
    [ item  |-> item,
      type  |-> questionType(item.method, item.question),
      qVal  |-> QVal(item, file),
      qSave |-> QSave(item, file),
      code  |-> ContentCode(QVal(item, file), item.key),
      pc    |-> "find" ]

\* new questionBankModel({ method, code, key, question: { type, value: qVal } })
NewBankEntry(task) ==
    [ hasLevel |-> FALSE,
      method   |-> task.item.method,
      code     |-> task.code,
      key      |-> task.item.key,
      type     |-> task.type,
      value    |-> task.qVal ]

\* QuestionBankSchema: level, method, code, question.type, question.value and
\* key are required; save() validates before it inserts.
ValidatesBankEntry(entry) ==
    /\ entry.hasLevel
    /\ entry.value # <<>>
    /\ entry.key # <<>>

\* A lookup that never finds an entry.
InBankNever(code) == FALSE

\* A lookup that finds an entry for every code.
InBankAlways(code) == TRUE

\* questionBankModel.findOne({ code })
InBank(code) == \E k \in 1..Len(bank) : bank[k].code = code

BankCount(code) == Cardinality({ k \in 1..Len(bank) : bank[k].code = code })

\* The object each map callback returns, as a question subdocument.
QuizQuestion(task, id) ==
    [ id     |-> id,
      method |-> task.item.method,
      code   |-> task.code,
      key    |-> task.item.key,
      type   |-> task.type,
      value  |-> task.qSave ]

NoPoint == -1

BankItem(m, q, k) == [method |-> m, question |-> q, key |-> k]

\* Question items a teacher submits.
BankItems ==
    { BankItem(1, <<"a", SP, "b">>, <<"a">>),
      BankItem(2, <<"A", SP, "b">>, <<"A">>),
      BankItem(5, <<"image", SLASH, "exercise", SLASH, "kucing", PNG>>, <<"kucing">>),
      BankItem(5, <<HEXRED>>, <<"merah">>) }

SavedFiles == { "exercise-1-1.png" }

\* Entries put in the collection outside these handlers; they carry a level.
SeedEntry(item) ==
    [NewBankEntry(NewTask(item, "none")) EXCEPT !.hasLevel = TRUE]

SeedBanks ==
    { <<>>,
      <<SeedEntry(BankItem(5, <<"image", SLASH, "exercise", SLASH, "kucing", PNG>>,
                           <<"kucing">>))>>,
      <<SeedEntry(BankItem(1, <<"a", SP, "b">>, <<"a">>)),
        SeedEntry(BankItem(5, <<HEXRED>>, <<"merah">>))>> }

Reqs == {1, 2}

NoRequest == [kind |-> "none", quiz |-> 0, tasks |-> <<>>, status |-> 0, shown |-> <<>>]

InFlight == Len(req[1].tasks) + Len(req[2].tasks)

Ended(task) == task.pc \in {"done", "failed"}

AllDone(r) == \A k \in 1..Len(req[r].tasks) : req[r].tasks[k].pc = "done"

AllEnded(r) == \A k \in 1..Len(req[r].tasks) : Ended(req[r].tasks[k])

\* storeExerciseQuiz up to the awaits inside Promise.all: the body is
\* validated, the exercise is found and every item's callback runs to its
\* findOne.  An empty questions array answers 422.
StoreExerciseQuizStart(r) ==
    /\ req[r].kind = "none"
    /\ Len(quizzes) + Cardinality({ x \in Reqs : req[x].kind = "store" }) < MaxQuiz
    /\ \E items \in SeqsUpTo(BankItems, MaxInFlight - InFlight), file \in SavedFiles :
         /\ nextId + InFlight + Len(items) <= MaxId + 1
         /\ req' = [req EXCEPT ![r] =
                [ kind   |-> "store",
                  quiz   |-> 0,
                  tasks  |-> [k \in 1..Len(items) |-> NewTask(items[k], file)],
                  status |-> IF items = <<>> THEN 422 ELSE 0,
                  shown  |-> <<>> ]]
    /\ UNCHANGED <<dbVars, nonQuizVars>>

\* updateExerciseQuiz up to the awaits inside Promise.all, for a quiz the
\* exercise has.
UpdateExerciseQuizStart(r) ==
    /\ req[r].kind = "none"
    /\ \E q \in 1..Len(quizzes), file \in SavedFiles,
          items \in SeqsUpTo(BankItems, MaxInFlight - InFlight) :
         /\ nextId + InFlight + Len(items) <= MaxId + 1
         /\ req' = [req EXCEPT ![r] =
                [ kind   |-> "update",
                  quiz   |-> q,
                  tasks  |-> [k \in 1..Len(items) |-> NewTask(items[k], file)],
                  status |-> IF items = <<>> THEN 422 ELSE 0,
                  shown  |-> <<>> ]]
    /\ UNCHANGED <<dbVars, nonQuizVars>>

\* A served path made of the whole stored value.
ShowPathWhole(s) == ImagePrefix \o s

\* show / quiz: 'image/exercise/' + q.question.value.split('/')[2]
ShowPath(s) ==
    ImagePrefix \o (IF Len(Split(s)) >= 3 THEN Split(s)[3] ELSE <<Undefined>>)

\* show / quiz, the questions.map callback: a path question with a value is
\* given its served form, any other question is returned as stored.
ShowQuestion(q) ==
    IF q.type = "path" /\ q.value # <<>> THEN [q EXCEPT !.value = ShowPath(@)] ELSE q

\* The item updateExerciseQuiz works on when it is sent a question as show
\* returned it: qParsed = typeof item.question == 'object' ?
\* item.question.value : item.question
ResaveItem(shown) == BankItem(shown.method, shown.value, shown.key)

\* updateExerciseQuiz called with the questions of quiz q exactly as show or
\* quiz returned them, up to the awaits inside Promise.all.  shown keeps the
\* questions as they were stored when they were read.
ResaveQuizStart(r) ==
    /\ req[r].kind = "none"
    /\ \E q \in 1..Len(quizzes), file \in SavedFiles :
         LET stored == quizzes[q].questions
         IN /\ stored # <<>>
            /\ Len(stored) <= MaxInFlight - InFlight
            /\ nextId + InFlight + Len(stored) <= MaxId + 1
            /\ req' = [req EXCEPT ![r] =
                   [ kind   |-> "update",
                     quiz   |-> q,
                     tasks  |-> [k \in 1..Len(stored) |->
                                   NewTask(ResaveItem(ShowQuestion(stored[k])), file)],
                     status |-> 0,
                     shown  |-> stored ]]
    /\ UNCHANGED <<dbVars, nonQuizVars>>

\* await questionBankModel.findOne({ code }) settles for item k of request r.
BankFindOne(r, k) ==
    /\ k \in 1..Len(req[r].tasks)
    /\ req[r].tasks[k].pc = "find"
    /\ req' = [req EXCEPT ![r].tasks[k].pc =
                  IF InBank(req[r].tasks[k].code) THEN "done" ELSE "save"]
    /\ UNCHANGED <<dbVars, nonQuizVars>>

\* await new questionBankModel({...}).save() settles for item k of request r:
\* the document is inserted, or validation rejects it, Promise.all rejects
\* and the handler's catch answers through errorHandling.
BankSave(r, k) ==
    /\ k \in 1..Len(req[r].tasks)
    /\ req[r].tasks[k].pc = "save"
    /\ LET entry == NewBankEntry(req[r].tasks[k])
       IN IF ValidatesBankEntry(entry)
             THEN /\ bank' = Append(bank, entry)
                  /\ req' = [req EXCEPT ![r].tasks[k].pc = "done"]
             ELSE /\ bank' = bank
                  /\ req' = [req EXCEPT ![r].tasks[k].pc = "failed",
                                        ![r].status = IF @ = 0 THEN 422 ELSE @]
    /\ UNCHANGED <<quizzes, nextId, nonQuizVars>>

NewQuestions(r) ==
    [k \in 1..Len(req[r].tasks) |-> QuizQuestion(req[r].tasks[k], nextId + k - 1)]

\* Promise.all resolved: exercise.quiz.push({...}); exercise.save(); 201
StoreExerciseQuizFinish(r) ==
    /\ req[r].kind = "store"
    /\ req[r].status = 0
    /\ AllDone(r)
    /\ quizzes' = Append(quizzes,
                     [questions |-> NewQuestions(r), answers |-> <<>>,
                      quizPoint |-> NoPoint])
    /\ nextId' = nextId + Len(req[r].tasks)
    /\ req' = [req EXCEPT ![r].status = 201]
    /\ UNCHANGED <<bank, nonQuizVars>>

\* Promise.all resolved: currentQuiz.questions = questionsArr; save(); 200
UpdateExerciseQuizFinish(r) ==
    /\ req[r].kind = "update"
    /\ req[r].status = 0
    /\ AllDone(r)
    /\ quizzes' = [quizzes EXCEPT ![req[r].quiz].questions = NewQuestions(r)]
    /\ nextId' = nextId + Len(req[r].tasks)
    /\ req' = [req EXCEPT ![r].status = 200]
    /\ UNCHANGED <<bank, nonQuizVars>>

\* The response is out and no callback of the request is still running.
RequestDone(r) ==
    /\ req[r].kind # "none"
    /\ req[r].status # 0
    /\ AllEnded(r)
    /\ req' = [req EXCEPT ![r] = NoRequest]
    /\ UNCHANGED <<dbVars, nonQuizVars>>

\* req.query.method of a bank listing; 0 stands for a missing method.
IndexMethods == {0, 1, 5}

NoIndex == [status |-> 0, data |-> <<>>]

\* 'image/exercise/' + d.question.value.split('/')[2]
ServedPath(s) ==
    ImagePrefix \o (IF Len(Split(s)) >= 3 THEN Split(s)[3] ELSE <<Undefined>>)

\* data.map(d => ...): the documents found, a path value put in served form
\* on the document in memory.
IndexView(entry) ==
    IF entry.type = "path" THEN [entry EXCEPT !.value = ServedPath(@)] ELSE entry

\* questionBankModel.find({ level, method })
IndexFind(method) ==
    LET found == SelectSeq(bank, LAMBDA e : e.hasLevel /\ e.method = method)
    IN [k \in 1..Len(found) |-> IndexView(found[k])]

\* questionBankController.index: 422 without level or method, else the
\* entries of that level and method.
QuestionBankIndex ==
    /\ \E hasLevel \in BOOLEAN, method \in IndexMethods :
         indexCall' = IF ~hasLevel \/ method = 0
                         THEN [status |-> 422, data |-> <<>>]
                         ELSE [status |-> 200, data |-> IndexFind(method)]
    /\ UNCHANGED <<nonHelperVars, scoreCall, cleanCall, hashCall>>

InitIndex == indexCall = NoIndex

InitDb ==
    /\ bank = <<>>
    /\ quizzes = <<>>
    /\ nextId = 1

\* The collection as the handlers find it: empty, or holding entries that
\* were put there outside them.
InitBankDb ==
    /\ bank \in SeedBanks
    /\ quizzes = <<>>
    /\ nextId = 1

InitReq == req = [r \in Reqs |-> NoRequest]

NextBank ==
    \/ \E r \in Reqs : StoreExerciseQuizStart(r)
    \/ \E r \in Reqs : UpdateExerciseQuizStart(r)
    \/ \E r \in Reqs, k \in 1..MaxInFlight : BankFindOne(r, k)
    \/ \E r \in Reqs, k \in 1..MaxInFlight : BankSave(r, k)
    \/ \E r \in Reqs : StoreExerciseQuizFinish(r)
    \/ \E r \in Reqs : UpdateExerciseQuizFinish(r)
    \/ \E r \in Reqs : RequestDone(r)
    \/ QuestionBankIndex
    \/ \E r \in Reqs : ResaveQuizStart(r)

-----------------------------------------------------------------------------
(* exerciseController.answer *)

\* What the transcription call of one answer produces: the call fails (the
\* service function throws), or it answers with a text and a similarity that
\* may be missing, negative or above 100.
AiReplies ==
    { [kind |-> "throws", text |-> <<>>, hasSimilarity |-> FALSE, similarity |-> 0],
      [kind |-> "reply", text |-> <<TXT>>, hasSimilarity |-> FALSE, similarity |-> 0],
      [kind |-> "reply", text |-> <<TXT>>, hasSimilarity |-> TRUE, similarity |-> 50],
      [kind |-> "reply", text |-> <<TXT>>, hasSimilarity |-> TRUE, similarity |-> 100],
      [kind |-> "reply", text |-> <<TXT>>, hasSimilarity |-> TRUE, similarity |-> -10],
      [kind |-> "reply", text |-> <<TXT>>, hasSimilarity |-> TRUE, similarity |-> 150] }

\* let responseFromAI = { text: '', similarity: 0 }
DefaultReply ==
    [kind |-> "reply", text |-> <<>>, hasSimilarity |-> TRUE, similarity |-> 0]

FileTypes == { "image/png", "audio/webm", "text/plain" }

\* ans.fileType.startsWith('image/') and startsWith('audio/')
IsImage(fileType) == fileType = "image/png"
IsAudio(fileType) == fileType = "audio/webm"

\* responseFromAI.similarity || 0
ScoreOf(reply) ==
    IF reply.hasSimilarity /\ reply.similarity # 0 THEN reply.similarity ELSE 0

\* A lookup that finds a question for every id.
HasQuestionAlways(quiz, questionId) == TRUE

\* quiz.questions.find(q => q._id.toString() === ans.questionId)
HasQuestion(quiz, questionId) ==
    \E k \in 1..Len(quiz.questions) : quiz.questions[k].id = questionId

\* parseInt(x / n) for integers x and n > 0: the quotient cut towards zero
ParseIntQuotient(x, n) == IF x >= 0 THEN x \div n ELSE -((-x) \div n)

\* A mean over the answers given instead of over the questions.
DenominatorAnswered(questions, answers) ==
    IF Len(answers) > 0 THEN Len(answers) ELSE Len(questions)

\* the divisor of line 551: quiz.questions.length
Denominator(questions, answers) == Len(questions)

\* if (quiz.questions.length > 0) totalPoints = totalPoints / quiz.questions.length;
\* quiz.quizPoint = parseInt(totalPoints)
QuizPoint(totalPoints, questions, answers) ==
    IF Len(questions) > 0
       THEN ParseIntQuotient(totalPoints, Denominator(questions, answers))
       ELSE totalPoints

\* A failed call that is swallowed, the loop going on to the next answer.
AfterThrowGoesOn(a, questionId) ==
    [a EXCEPT !.count = @ + 1, !.calls = @ + 1, !.failed = TRUE,
              !.submitted = Append(@, questionId)]

\* The transcription call for the answer to questionId threw: the handler's
\* catch passes the error to errorHandling, which answers 500.
AfterThrow(a, questionId) ==
    [a EXCEPT !.pc = "responded", !.status = 500, !.calls = @ + 1,
              !.failed = TRUE, !.submitted = Append(@, questionId)]

\* A handler that goes on from the records the quiz already has.
StartAnswersKept(quiz) == quiz.answers

\* quiz.answers = []
StartAnswers(quiz) == <<>>

NoAnswerRequest ==
    [pc |-> "idle", quiz |-> 0, answers |-> <<>>, totalPoints |-> 0,
     count |-> 0, invalid |-> FALSE, status |-> 0, calls |-> 0, failed |-> FALSE,
     submitted |-> <<>>]

\* findById, quiz lookup, totalPoints = 0, quiz.answers = [] on the loaded
\* document.  An unknown quiz id answers 400.
AnswerStart ==
    /\ ans.pc = "idle"
    /\ \E q \in 0..Len(quizzes) :
         ans' = IF q = 0
                   THEN [NoAnswerRequest EXCEPT !.pc = "responded", !.status = 400]
                   ELSE [NoAnswerRequest EXCEPT !.pc = "loop", !.quiz = q,
                                                !.answers = StartAnswers(quizzes[q])]
    /\ UNCHANGED <<quizzes, nonAnswerVars>>

\* One pass of for (const ans of answers): the next submitted answer, with
\* what its transcription call produces.  hasDuration is FALSE for an answer
\* sent without the duration the schema requires.  submitted is the part of
\* req.body.answers read so far, by question id.  calls counts the requests
\* made to the transcription endpoints, failed records that one threw; the
\* throw leaves the loop for the handler's catch, which answers 500.
AnswerStep ==
    /\ ans.pc = "loop"
    /\ ans.count < MaxAnswers
    /\ \E questionId \in 1..(Len(quizzes[ans.quiz].questions) + 1),
          fileType \in FileTypes, ai \in AiReplies, hasDuration \in BOOLEAN :
         LET called == IsImage(fileType) \/ IsAudio(fileType)
             reply  == IF called THEN ai ELSE DefaultReply
             score  == ScoreOf(reply)
         IN IF ~HasQuestion(quizzes[ans.quiz], questionId)
               THEN ans' = [ans EXCEPT !.count = @ + 1,
                                       !.submitted = Append(@, questionId)]
               ELSE IF called /\ ai.kind = "throws"
                       THEN ans' = AfterThrow(ans, questionId)
                       ELSE ans' = [ans EXCEPT
                                !.count = @ + 1,
                                !.submitted = Append(@, questionId),
                                !.calls = IF called THEN @ + 1 ELSE @,
                                !.totalPoints = @ + score,
                                !.invalid = @ \/ ~hasDuration,
                                !.answers = Append(@,
                                    [ questionId      |-> questionId,
                                      text            |-> reply.text,
                                      similarityPoint |-> score ])]
    /\ UNCHANGED <<quizzes, nonAnswerVars>>

\* The loop is over: the aggregate, exercise.save() and the response.  save
\* validates the document and rejects an answer without duration (422).
AnswerFinish ==
    /\ ans.pc = "loop"
    /\ IF ans.invalid
          THEN /\ quizzes' = quizzes
               /\ ans' = [ans EXCEPT !.pc = "responded", !.status = 422]
          ELSE /\ quizzes' = [quizzes EXCEPT
                     ![ans.quiz].answers = ans.answers,
                     ![ans.quiz].quizPoint =
                         QuizPoint(ans.totalPoints, quizzes[ans.quiz].questions,
                                   ans.answers)]
               /\ ans' = [ans EXCEPT !.pc = "responded", !.status = 200]
    /\ UNCHANGED nonAnswerVars

InitAns == ans = NoAnswerRequest

SampleQuestion(id) ==
    [ id |-> id, method |-> 1, code |-> ContentCode(<<"ab">>, <<"a">>),
      key |-> <<"a">>, type |-> "text", value |-> <<"a", SP, "b">> ]

\* A stored quiz of n questions: not yet answered, or answered once before
\* with one full-score answer to its first question.  ExerciseSchema lets a
\* quiz have no questions, and answer tests quiz.questions.length for it.
StoredQuiz(n, answered) ==
    LET questions == [k \in 1..n |-> SampleQuestion(k)]
        old == <<[questionId |-> 1, text |-> <<TXT>>, similarityPoint |-> 100]>>
    IN IF answered
          THEN [ questions |-> questions, answers |-> old,
                 quizPoint |-> QuizPoint(100, questions, old) ]
          ELSE [ questions |-> questions, answers |-> <<>>, quizPoint |-> NoPoint ]

InitGradeDb ==
    /\ bank = <<>>
    /\ \E n \in 0..MaxQuestions, answered \in BOOLEAN :
         /\ answered => n >= 1
         /\ quizzes = <<StoredQuiz(n, answered)>>
         /\ nextId = n + 1

NextGrade ==
    \/ AnswerStart
    \/ AnswerStep
    \/ AnswerFinish

-----------------------------------------------------------------------------
(* similarity.calculateCharacterMatchScore *)

\* Characters of the strings compared: letters in both cases and the space.
ScoreChars == { "a", "b", "A", SP }

ScoreStrings == SeqsUpTo(ScoreChars, MaxStrLen)

\* A normalization that keeps the letter case.
ScoreNormalizeKeepCase(s) == Trim(s)

\* stringA.toLowerCase().trim()
ScoreNormalize(s) == Trim(ToLowerCase(s))

\* Math.max(a.length, b.length)
LongerLength(a, b) == IF Len(a) >= Len(b) THEN Len(a) ELSE Len(b)

\* Every character of both strings counted as correct.
CorrectCharsOfBoth(a, b) == Len(a) + Len(b)

\* correctChars: the positions i < longerLength with a[i] === b[i].  Past
\* the end of a string a[i] is undefined, which equals no character.
CorrectChars(a, b) ==
    Cardinality({ i \in 1..LongerLength(a, b) :
                    i <= Len(a) /\ i <= Len(b) /\ a[i] = b[i] })

\* A number as the fraction num / den, den > 0.
Fraction(num, den) == [num |-> num, den |-> den]

\* The value returned for stringA, stringB.
calculateCharacterMatchScore(stringA, stringB) ==
    IF stringA = <<>> \/ stringB = <<>> THEN Fraction(0, 1)
    ELSE LET a == ScoreNormalize(stringA)
             b == ScoreNormalize(stringB)
         IN IF LongerLength(a, b) = 0 THEN Fraction(100, 1)
            ELSE Fraction(CorrectChars(a, b) * 100, LongerLength(a, b))

NoScore == [pc |-> "idle", a |-> <<>>, b |-> <<>>, out |-> Fraction(0, 1)]

ScoreCall ==
    /\ scoreCall.pc = "idle"
    /\ \E a \in ScoreStrings, b \in ScoreStrings :
         scoreCall' = [pc |-> "returned", a |-> a, b |-> b,
                   out |-> calculateCharacterMatchScore(a, b)]
    /\ UNCHANGED <<cleanCall, hashCall, indexCall, nonHelperVars>>

ScoreDone ==
    /\ scoreCall.pc = "returned"
    /\ scoreCall' = NoScore
    /\ UNCHANGED <<cleanCall, hashCall, indexCall, nonHelperVars>>

InitScore == scoreCall = NoScore

NextScore ==
    \/ ScoreCall
    \/ ScoreDone

-----------------------------------------------------------------------------
(* promptHelpers.cleanLLMOutput on arbitrary text *)

CleanTokens == { BT, JSONW, NL, SP, HERE, COLON, TXT }

CleanTexts == SeqsUpTo(CleanTokens, MaxTextLen)

NoClean == [pc |-> "idle", text |-> <<>>, once |-> <<>>, twice |-> <<>>]

\* cleanLLMOutput(text), and cleanLLMOutput of what it returned.
CleanCall ==
    /\ cleanCall.pc = "idle"
    /\ \E text \in CleanTexts :
         cleanCall' = [pc |-> "returned", text |-> text,
                   once  |-> cleanLLMOutput(text),
                   twice |-> cleanLLMOutput(cleanLLMOutput(text))]
    /\ UNCHANGED <<scoreCall, hashCall, indexCall, nonHelperVars>>

CleanDone ==
    /\ cleanCall.pc = "returned"
    /\ cleanCall' = NoClean
    /\ UNCHANGED <<scoreCall, hashCall, indexCall, nonHelperVars>>

InitClean == cleanCall = NoClean

NextClean ==
    \/ CleanCall
    \/ CleanDone

-----------------------------------------------------------------------------
(* One exercise through storeExerciseQuiz, updateExerciseQuiz and answer *)

\* The three handlers on one exercise document, one request after the other:
\* a quiz request starts when no answer request is in its loop, an answer
\* request when no quiz request is in flight.
QuizStoreStart == ans.pc # "loop" /\ StoreExerciseQuizStart(1)

QuizUpdateStart == ans.pc # "loop" /\ UpdateExerciseQuizStart(1)

QuizAnswerStart == req[1].kind = "none" /\ AnswerStart

NextQuiz ==
    \/ QuizStoreStart
    \/ QuizUpdateStart
    \/ \E k \in 1..MaxInFlight : BankFindOne(1, k)
    \/ \E k \in 1..MaxInFlight : BankSave(1, k)
    \/ StoreExerciseQuizFinish(1)
    \/ UpdateExerciseQuizFinish(1)
    \/ RequestDone(1)
    \/ QuizAnswerStart
    \/ AnswerStep
    \/ AnswerFinish

-----------------------------------------------------------------------------
(* The content hash of a text item *)

\* Question texts and keys a teacher may type: letters in both cases and
\* spaces, not empty (the handlers reject an empty question or key).
HashTexts == SeqsUpTo({ "a", "A", SP }, MaxStrLen) \ { <<>> }

HashKeys == { <<"a">>, <<"A">>, <<"a", SP, SP, "a">>, <<"a", SP, "a">> }

HashItems == { BankItem(1, q, k) : q \in HashTexts, k \in HashKeys }

NoHash ==
    [pc |-> "idle", x |-> BankItem(1, <<"a">>, <<"a">>),
     y |-> BankItem(1, <<"a">>, <<"a">>),
     codeX |-> ContentCode(<<"a">>, <<"a">>),
     codeY |-> ContentCode(<<"a">>, <<"a">>)]

\* The map callback's code for two items, as both handlers compute it.
HashCall ==
    /\ hashCall.pc = "idle"
    /\ \E x \in HashItems, y \in HashItems :
         hashCall' = [pc |-> "returned", x |-> x, y |-> y,
                      codeX |-> NewTask(x, "none").code,
                      codeY |-> NewTask(y, "none").code]
    /\ UNCHANGED <<scoreCall, cleanCall, indexCall, nonHelperVars>>

HashDone ==
    /\ hashCall.pc = "returned"
    /\ hashCall' = NoHash
    /\ UNCHANGED <<scoreCall, cleanCall, indexCall, nonHelperVars>>

InitHash == hashCall = NoHash

NextHash ==
    \/ HashCall
    \/ HashDone

-----------------------------------------------------------------------------
(* Specifications *)

InitHelpers == InitScore /\ InitClean /\ InitHash /\ InitIndex

Init == InitLLM /\ InitGen /\ InitDb /\ InitReq /\ InitAns /\ InitHelpers

InitBank == InitLLM /\ InitGen /\ InitBankDb /\ InitReq /\ InitAns /\ InitHelpers

\* The exercise already holds a quiz, as after storeExerciseQuiz.
InitGrade == InitLLM /\ InitGen /\ InitGradeDb /\ InitReq /\ InitAns /\ InitHelpers

SpecLLM == Init /\ [][NextLLM]_vars

\* The loop's own steps are taken when enabled, and every call to the model
\* endpoint returns or fails.
FairSpecLLM ==
    /\ SpecLLM
    /\ WF_vars(LLMCall)
    /\ WF_vars(LLMRespond)
    /\ WF_vars(LLMExhausted)

SpecGen == Init /\ [][NextGen]_vars

SpecBank == InitBank /\ [][NextBank]_vars

SpecGrade == InitGrade /\ [][NextGrade]_vars

SpecQuiz == InitBank /\ [][NextQuiz]_vars

SpecHash == Init /\ [][NextHash]_vars

SpecScore == Init /\ [][NextScore]_vars

SpecClean == Init /\ [][NextClean]_vars


-----------------------------------------------------------------------------
(* Claims about generateLLM *)

\* C3: when an attempt's response does not parse as JSON the attempt is
\* retried, so a value is returned only for a response that parsed, and the
\* invocation that fails has made retries calls.
C3_UnparsedNeverReturned ==
    /\ llmPc = "returned" => JSONParses(cleanLLMOutput(llmRaw.text))
    /\ llmPc = "thrown" => llmCalls = llmRetries

\* C4: one invocation never makes more than retries calls to the model
\* endpoint, and an invocation that is in its loop finishes (returns or
\* throws) provided every call it makes returns or fails.
C4_BoundedCallsAndTermination ==
    /\ [](llmCalls <= llmRetries)
    /\ [](llmPc \in {"loop", "calling"} => <>(llmPc \in {"returned", "thrown"}))

\* A transport error on every attempt but the last, which returns.
C4_Witness ==
    /\ llmPc = "returned"
    /\ llmRetries >= 2
    /\ llmCalls = llmRetries

\* C19: the first attempt whose response parses returns the parsed value at
\* once: every attempt before it threw, and no call to the model endpoint
\* follows the return.
C19_ParsedValueReturnedAtOnce ==
    /\ []( (llmPc = "returned" /\ JSONParses(cleanLLMOutput(llmRaw.text))) =>
             /\ llmResult = JSONValue(cleanLLMOutput(llmRaw.text))
             /\ llmCalls = llmI + 1 )
    /\ [][ llmPc = "returned" => (llmPc' = "idle" /\ llmCalls' = llmCalls) ]_vars

\* The first call returns a document although attempts remain.
C19_Witness ==
    /\ llmPc = "returned"
    /\ llmResult = "document"
    /\ llmCalls = 1
    /\ llmRetries = MaxRetries

\* C20: a transport error on an attempt is caught and followed by the next
\* attempt while attempts remain; when every call has failed the invocation
\* throws its own error after exactly retries calls.
C20_TransportErrorsRetriedThenExhausted ==
    /\ [][ (llmPc = "calling" /\ llmRaw'.kind = "error") =>
             (llmPc' = "loop" /\ llmI' = llmI + 1) ]_vars
    /\ [][ (llmPc = "loop" /\ llmI < llmRetries) =>
             (llmPc' = "calling" /\ llmCalls' = llmCalls + 1) ]_vars
    /\ []( llmPc = "thrown" => (llmCalls = llmRetries /\ llmI = llmRetries) )

\* Every one of MaxRetries calls failed with a transport error.
C20_Witness ==
    /\ llmPc = "thrown"
    /\ llmRetries = MaxRetries
    /\ llmCalls = MaxRetries
    /\ llmRaw.kind = "error"

-----------------------------------------------------------------------------
(* Claims about generate *)

Returned == genResp.questions

\* The file a returned path item references: the value without its path and
\* without the extension the rewrite appends.
ReferencedFile(item) ==
    LET f == LastSegment(item.question.value)
    IN IF EndsWithPng(f) THEN SubSeq(f, 1, Len(f) - 1) ELSE f

IsIntegerInRange(v) ==
    /\ v.t = "number"
    /\ ~v.nan
    /\ v.twice % 2 = 0
    /\ v.twice >= 2
    /\ v.twice <= 12

\* The numeric value of a JavaScript value is the integer n.
HasMethod(v, n) == ~v.nan /\ v.twice = 2 * n

\* C5: a successful response never carries more than quantity questions.
C5_AtMostQuantity ==
    genResp.status = 200 => Len(Returned) <= genReq.quantity

\* More items survived the filter than were asked for, and the response
\* carries exactly quantity of them.
C5_Witness ==
    /\ genResp.status = 200
    /\ Len(FilterItems(genOut.items, genReq.method)) > genReq.quantity
    /\ Len(Returned) = genReq.quantity

\* C6: every returned path item references a file of listImages.
C6_ReturnedPathsWhitelisted ==
    genResp.status = 200 =>
        \A k \in 1..Len(Returned) :
            Returned[k].question.type = "path" =>
                ReferencedFile(Returned[k]) \in listImages

\* C7: no returned item has method 6 and kind path.
C7_NoArithmeticPathReturned ==
    genResp.status = 200 =>
        \A k \in 1..Len(Returned) :
            ~(HasMethod(Returned[k].method, 6) /\ Returned[k].question.type = "path")

\* C8: every returned item's method is an integer in 1..6.
C8_ReturnedMethodsIntegerInRange ==
    genResp.status = 200 =>
        \A k \in 1..Len(Returned) : IsIntegerInRange(Returned[k].method)

\* C9: when the request names a method other than 0, every returned item
\* has that method.
C9_ReturnedMatchRequestedMethod ==
    (genResp.status = 200 /\ genReq.method # Num(0)) =>
        \A k \in 1..Len(Returned) :
            /\ ~Returned[k].method.nan
            /\ Returned[k].method.twice = genReq.method.twice

\* A request for method 5 whose model output mixed methods: an item of
\* another valid method was dropped and an item of method 5 returned.
C9_Witness ==
    /\ genResp.status = 200
    /\ genReq.method = Num(5)
    /\ Len(Returned) >= 1
    /\ \E k \in 1..Len(genOut.items) :
         /\ isValidMethod(genOut.items[k])
         /\ ~HasMethod(genOut.items[k].method, 5)

\* With method 0 in the request, items of different methods are returned.
C9_WitnessMixed ==
    /\ genResp.status = 200
    /\ genReq.method = Num(0)
    /\ \E j, k \in 1..Len(Returned) : Returned[j].method # Returned[k].method


-----------------------------------------------------------------------------
(* Claims about the question bank *)

\* The item callbacks running or finished, as <<request, index>>.
TaskIds == { <<r, k>> : r \in Reqs, k \in 1..MaxInFlight + 1 }

LiveTasks == { x \in TaskIds : x[2] <= Len(req[x[1]].tasks) }

TaskOf(x) == req[x[1]].tasks[x[2]]

\* C1: once two upserts of items with one content hash have both finished
\* (two items of one batch, or of two overlapping requests), the bank holds
\* exactly one entry with that hash.
C1_TwoUpsertsOneEntry ==
    \A x, y \in LiveTasks :
        ( /\ x # y
          /\ TaskOf(x).code = TaskOf(y).code
          /\ Ended(TaskOf(x))
          /\ Ended(TaskOf(y)) )
        => BankCount(TaskOf(x).code) = 1

-----------------------------------------------------------------------------
(* Claims about grading *)

RECURSIVE SumSimilarity(_)
SumSimilarity(records) ==
    IF records = <<>> THEN 0
    ELSE Head(records).similarityPoint + SumSimilarity(Tail(records))

\* The quotient x / n without its fractional part.
Truncated(x, n) ==
    CHOOSE t \in -(MaxAnswers * 150)..(MaxAnswers * 150) :
        /\ (x >= 0 => (t * n <= x /\ x < (t + 1) * n))
        /\ (x < 0 => (t * n >= x /\ x > (t - 1) * n))

\* C10: after a graded submission the quiz's quizPoint is the sum of the
\* stored similarityPoint values divided by the number of questions of the
\* quiz, cut to an integer, and 0 for a quiz without questions.
C10_QuizPointIsSumOverQuestions ==
    (ans.pc = "responded" /\ ans.status = 200) =>
        LET quiz == quizzes[ans.quiz]
        IN quiz.quizPoint =
              IF Len(quiz.questions) = 0 THEN 0
              ELSE Truncated(SumSimilarity(quiz.answers), Len(quiz.questions))

\* Four questions, two answers of 100 each: 50.
C10_Witness ==
    /\ ans.pc = "responded"
    /\ ans.status = 200
    /\ Len(quizzes[ans.quiz].questions) = 4
    /\ Len(quizzes[ans.quiz].answers) = 2
    /\ \A k \in 1..2 : quizzes[ans.quiz].answers[k].similarityPoint = 100
    /\ quizzes[ans.quiz].quizPoint = 50

-----------------------------------------------------------------------------
(* Claims about calculateCharacterMatchScore *)

\* C11: for all strings a and b the score returned is a number between 0
\* and 100 inclusive.
C11_ScoreBetween0And100 ==
    scoreCall.pc = "returned" =>
        /\ scoreCall.out.den > 0
        /\ scoreCall.out.num >= 0
        /\ scoreCall.out.num <= 100 * scoreCall.out.den

\* Two strings that agree in some positions and not in others: a score
\* strictly between 0 and 100.
C11_Witness ==
    /\ scoreCall.pc = "returned"
    /\ scoreCall.out.num > 0
    /\ scoreCall.out.num < 100 * scoreCall.out.den

\* C12: the score is 100 whenever both normalized strings are empty, the
\* pair of empty strings included.
C12_BothEmptyScores100 ==
    ( /\ scoreCall.pc = "returned"
      /\ ScoreNormalize(scoreCall.a) = <<>>
      /\ ScoreNormalize(scoreCall.b) = <<>> )
    => scoreCall.out.num = 100 * scoreCall.out.den

-----------------------------------------------------------------------------
(* Claims about cleanLLMOutput *)

\* C13: cleaning is idempotent: cleaning a cleaned text gives the cleaned
\* text, also for texts with repeated fence markers or repeated preambles.
C13_CleanIdempotent ==
    cleanCall.pc = "returned" => cleanCall.twice = cleanCall.once

\* C14: when the transcription call of one answer fails, the answer is
\* recorded with similarityPoint 0 and an empty transcription and the
\* submission is graded to its end.
C14_FailedCallRecordedAsZero ==
    (ans.pc = "responded" /\ ans.failed) =>
        /\ ans.status = 200
        /\ \E k \in 1..Len(quizzes[ans.quiz].answers) :
             /\ quizzes[ans.quiz].answers[k].similarityPoint = 0
             /\ quizzes[ans.quiz].answers[k].text = <<>>

\* C15: an answer whose media type is neither image nor audio is skipped:
\* every record a graded submission stores comes from an answer for which a
\* transcription endpoint was called.
C15_OtherMediaNotRecorded ==
    (ans.pc = "responded" /\ ans.status = 200) =>
        Len(quizzes[ans.quiz].answers) <= ans.calls

\* C17: every stored answer record has similarityPoint in 0..100, whatever
\* similarity the transcription service returned.
C17_SimilarityPointIn0To100 ==
    \A q \in 1..Len(quizzes) : \A k \in 1..Len(quizzes[q].answers) :
        /\ quizzes[q].answers[k].similarityPoint >= 0
        /\ quizzes[q].answers[k].similarityPoint <= 100

\* C16: in every state reached through quiz creation, quiz update and
\* answer submission, every stored answer record names a question of its
\* own quiz.
C16_AnswersReferenceOwnQuestions ==
    \A q \in 1..Len(quizzes) : \A k \in 1..Len(quizzes[q].answers) :
        \E j \in 1..Len(quizzes[q].questions) :
            quizzes[q].questions[j].id = quizzes[q].answers[k].questionId

-----------------------------------------------------------------------------
(* Claims about the content hash *)

\* A text in lower case with every run of spaces made one space.
RECURSIVE CollapseSpaces(_)
CollapseSpaces(s) ==
    IF Len(s) <= 1 THEN s
    ELSE IF s[1] = SP /\ s[2] = SP THEN CollapseSpaces(Tail(s))
    ELSE <<s[1]>> \o CollapseSpaces(Tail(s))

LowerCollapsed(s) == CollapseSpaces(ToLowerCase(s))

\* C18: two items whose question values and keys differ only in letter case
\* or in the number of spaces of a run get the same content hash.
C18_HashIgnoresCaseAndSpacing ==
    ( /\ hashCall.pc = "returned"
      /\ LowerCollapsed(hashCall.x.question) = LowerCollapsed(hashCall.y.question)
      /\ LowerCollapsed(hashCall.x.key) = LowerCollapsed(hashCall.y.key) )
    => hashCall.codeX = hashCall.codeY

-----------------------------------------------------------------------------
(* Claims about the score's value *)

\* The positions at which both strings have a character and the characters
\* are equal.
RECURSIVE MatchCount(_, _)
MatchCount(a, b) ==
    IF a = <<>> \/ b = <<>> THEN 0
    ELSE (IF Head(a) = Head(b) THEN 1 ELSE 0) + MatchCount(Tail(a), Tail(b))

-----------------------------------------------------------------------------
(* Claims about the path rewrite *)

\* The part of a value after its last slash.
RECURSIVE AfterLastSlash(_)
AfterLastSlash(s) ==
    IF \E p \in 1..Len(s) : s[p] = SLASH
       THEN AfterLastSlash(Tail(s))
       ELSE s

\* The items of the model's output that the filter kept, in order.
Survivors == FilterItems(genOut.items, genReq.method)

-----------------------------------------------------------------------------
(* Claims about the answers of one submission *)

\* The submitted question ids that name a question of the quiz, in order.
MatchedIds(quiz, ids) ==
    SelectSeq(ids, LAMBDA id : \E k \in 1..Len(quiz.questions) :
                                   quiz.questions[k].id = id)

\* C23: a submitted answer whose questionId matches no question of the quiz
\* is dropped: it gets no record, causes no transcription call and adds
\* nothing to the total, and the submission succeeds all the same.
C23_UnknownQuestionDropped ==
    ans.quiz # 0 =>
        LET quiz == quizzes[ans.quiz]
            matched == MatchedIds(quiz, ans.submitted)
            recorded == IF ans.failed
                           THEN SubSeq(matched, 1, Len(matched) - 1)
                           ELSE matched
        IN /\ [k \in 1..Len(ans.answers) |-> ans.answers[k].questionId] = recorded
           /\ ans.calls <= Len(matched)
           /\ ans.totalPoints = SumSimilarity(ans.answers)
           /\ (ans.pc = "responded" /\ ~ans.failed /\ ~ans.invalid) =>
                 /\ ans.status = 200
                 /\ quizzes[ans.quiz].answers = ans.answers
           /\ (ans.pc = "responded" /\ matched = <<>>) =>
                 /\ ans.status = 200
                 /\ ans.calls = 0
                 /\ quiz.answers = <<>>
                 /\ quiz.quizPoint = 0

\* An unknown id, then an answer to question 1: one record, one call, 200.
C23_Witness ==
    /\ ans.pc = "responded"
    /\ ans.status = 200
    /\ Len(quizzes[ans.quiz].questions) = 1
    /\ ans.submitted = <<2, 1>>
    /\ Len(quizzes[ans.quiz].answers) = 1
    /\ ans.calls = 1
    /\ quizzes[ans.quiz].quizPoint = 50

-----------------------------------------------------------------------------
(* Claims about the life of a bank entry *)

\* C24: no step changes or removes a bank entry; a lookup that finds the
\* code of an item in the bank ends that item's upsert successfully with the
\* bank as it was; a listing of the bank leaves the bank as it was.
C24_BankEntriesNeverChange ==
    [][ /\ Len(bank') >= Len(bank)
        /\ \A j \in 1..Len(bank) : bank'[j] = bank[j]
        /\ \A r \in Reqs : \A k \in 1..Len(req[r].tasks) :
             ( /\ req[r].tasks[k].pc = "find"
               /\ Len(req'[r].tasks) = Len(req[r].tasks)
               /\ req'[r].tasks[k].pc # "find"
               /\ \E j \in 1..Len(bank) : bank[j].code = req[r].tasks[k].code )
             => /\ req'[r].tasks[k].pc = "done"
                /\ req'[r].status = req[r].status
                /\ bank' = bank
        /\ indexCall' # indexCall => bank' = bank ]_vars

\* A quiz was stored from an item already in the bank, and a listing
\* returned the entry in served form; the bank is a seeded one.
C24_Witness ==
    /\ \E r \in Reqs : req[r].status = 201 /\ Len(req[r].tasks) = 1
    /\ bank \in SeedBanks
    /\ Len(bank) = 1
    /\ indexCall.status = 200
    /\ Len(indexCall.data) = 1
    /\ indexCall.data[1].value = <<"image", SLASH, "exercise", SLASH, "kucing", PNG>>

-----------------------------------------------------------------------------
(* Claims about arithmetic items *)

\* C25: every item of method 6 that generation returns, or that a quiz or
\* the bank stores, has a question of kind text.
C25_ArithmeticItemsAreText ==
    /\ genResp.status = 200 =>
         \A k \in 1..Len(Returned) :
             HasMethod(Returned[k].method, 6) => Returned[k].question.type = "text"
    /\ \A q \in 1..Len(quizzes) : \A k \in 1..Len(quizzes[q].questions) :
         quizzes[q].questions[k].method = 6 => quizzes[q].questions[k].type = "text"
    /\ \A k \in 1..Len(bank) : bank[k].method = 6 => bank[k].type = "text"

\* C26: after a graded submission whose per-answer similarities are all in
\* 0..100, the stored quizPoint is in 0..100, whatever the number of answers
\* and whichever questions they name.
C26_QuizPointIn0To100 ==
    ( /\ ans.pc = "responded"
      /\ ans.status = 200
      /\ \A k \in 1..Len(quizzes[ans.quiz].answers) :
           /\ quizzes[ans.quiz].answers[k].similarityPoint >= 0
           /\ quizzes[ans.quiz].answers[k].similarityPoint <= 100 )
    => /\ quizzes[ans.quiz].quizPoint >= 0
       /\ quizzes[ans.quiz].quizPoint <= 100

-----------------------------------------------------------------------------
(* Claims about what a submission persists *)

\* C27: the stored exercise changes only in the step that ends a submission
\* with 200, all of whose answers were processed without error; a submission
\* answered 400, 422 or 500 leaves the quiz's answers and quizPoint as they
\* were before it.
C27_FailedSubmissionPersistsNothing ==
    [][ /\ quizzes' # quizzes =>
             /\ ans.pc = "loop"
             /\ ans'.pc = "responded"
             /\ ans'.status = 200
             /\ ~ans'.failed
        /\ (ans'.pc = "responded" /\ ans'.status # 200) => quizzes' = quizzes ]_vars

\* The second answer's call threw after the first was scored: 500, and the
\* quiz still holds the record and the quizPoint of the earlier submission.
C27_Witness ==
    /\ ans.pc = "responded"
    /\ ans.status = 500
    /\ ans.failed
    /\ Len(ans.answers) = 1
    /\ ans.answers[1].similarityPoint = 50
    /\ Len(quizzes[ans.quiz].questions) = 2
    /\ Len(quizzes[ans.quiz].answers) = 1
    /\ quizzes[ans.quiz].answers[1].similarityPoint = 100
    /\ quizzes[ans.quiz].quizPoint = 50

\* C28: after a graded submission the quiz holds one record for each
\* submitted answer that named one of its questions, in the order submitted,
\* and nothing of an earlier submission; quizPoint is computed from these
\* records alone.
C28_SubmissionReplacesAnswers ==
    (ans.pc = "responded" /\ ans.status = 200) =>
        LET quiz == quizzes[ans.quiz]
            n == Len(quiz.questions)
        IN /\ [k \in 1..Len(quiz.answers) |-> quiz.answers[k].questionId] =
                  MatchedIds(quiz, ans.submitted)
           /\ quiz.quizPoint =
                  IF n = 0 THEN 0 ELSE Truncated(SumSimilarity(quiz.answers), n)

\* A quiz of two questions answered once before (question 1, 100 points,
\* quizPoint 50) is answered again for question 2 with 50 points: one
\* record, quizPoint 25.
C28_Witness ==
    /\ ans.pc = "responded"
    /\ ans.status = 200
    /\ ans.submitted = <<2>>
    /\ Len(quizzes[ans.quiz].questions) = 2
    /\ Len(quizzes[ans.quiz].answers) = 1
    /\ quizzes[ans.quiz].answers[1].questionId = 2
    /\ quizzes[ans.quiz].answers[1].similarityPoint = 50
    /\ quizzes[ans.quiz].quizPoint = 25

-----------------------------------------------------------------------------
(* Claims about quiz questions and the bank *)

\* C29 as stated: every question stored in a quiz has a bank entry with its
\* code, its method and its kind.
C29_QuestionHasEntryOfSameMethodKind ==
    \A q \in 1..Len(quizzes) : \A k \in 1..Len(quizzes[q].questions) :
        \E j \in 1..Len(bank) :
            /\ bank[j].code = quizzes[q].questions[k].code
            /\ bank[j].method = quizzes[q].questions[k].method
            /\ bank[j].type = quizzes[q].questions[k].type

\* C29 amended: every question stored in a quiz has a bank entry with its
\* code; the entry's method and kind are those of the item that created it.
C29_QuestionHasEntryOfSameCode ==
    \A q \in 1..Len(quizzes) : \A k \in 1..Len(quizzes[q].questions) :
        \E j \in 1..Len(bank) : bank[j].code = quizzes[q].questions[k].code

\* A quiz holds a question of method 2 whose code is that of a bank entry
\* of method 1.
C29_Witness ==
    \E q \in 1..Len(quizzes) : \E k \in 1..Len(quizzes[q].questions) :
        \E j \in 1..Len(bank) :
            /\ bank[j].code = quizzes[q].questions[k].code
            /\ quizzes[q].questions[k].method = 2
            /\ bank[j].method = 1

\* The fields of a question other than its subdocument id.
Content(q) ==
    [method |-> q.method, code |-> q.code, key |-> q.key,
     type |-> q.type, value |-> q.value]

=============================================================================
